---- MODULE Spec2Model ----
(***************************************************************************)
(* Model of the equivalence-class store of liveverilogeval:                *)
(* entry_types.Database (designs, questions, question_search) and the      *)
(* operations add_design, merge_equiv_groups, add_question and read_db.    *)
(* Strings are TLA+ strings; Python's lexicographic `<` on them is         *)
(* StrLess, computed from the character codes of each string.              *)
(* Spec calls the Database operations in any order; SpecMerge adds the     *)
(* merge planner, which folds a batch of verdicts into merges.             *)
(* SpecOracle is the yosys wrapper check_equivalence, one invocation per   *)
(* module of the ground truth.  SpecValidate is one ValidQuestionGenerator *)
(* validated repeatedly, SpecPipeline several of them validated at the     *)
(* same time, and SpecBatch the gathered batches of gen_question_bulk and  *)
(* verify_question.                                                        *)
(***************************************************************************)
EXTENDS Integers, Sequences, FiniteSets, TLC

VARIABLES
    designs,          \* Database.designs: class id -> list of DesignEntry
    questions,        \* Database.questions: list of QuestionEntry
    question_search,  \* Database.question_search: class id -> list of references
                      \* (indices into questions) to QuestionEntry objects
    call,             \* the name of the last operation called
    ret,              \* what that call returned or raised
    ever_merged,      \* history: class id -> the class ids ever merged into it
    plan_pc,          \* merge planner: "idle", "merging", "done" or "failed"
    plan_start,       \* merge planner: designs as they were when the pass began
    plan_batch,       \* merge planner: the verdicts of the batch, by pair of ids
    plan_merged,      \* merge planner: the class ids already folded into a target
    yosys_pc,         \* check_equivalence: "idle", "running", "returned", "raised"
    modules_left,     \* create_yosys_files: modules of mod_module_list still to check
    invocations,      \* history: what happened to each yosys invocation of the call
    yosys_stdout_list,\* create_yosys_files: the code appended for each invocation
    check_ret,        \* what check_equivalence returned or raised
    vq_pc,            \* per ValidQuestionGenerator: "idle", "checking", "returned"
    generated_answers,\* ValidQuestionGenerator.generated_answers
    results,          \* validate: per answer "queued", "running", or the result
                      \* of its check_equivalence call ("True", "False", "OSError")
    semaphore,        \* ValidQuestionGenerator.semaphore: the permits left
    valid_question,   \* ValidQuestionGenerator.valid_question
    validate_ret,     \* what the last validate() call returned
    bulk_pc,          \* gen_question_bulk: "idle", "gathering", "returned", "raised"
    bulk_tasks,       \* gen_question_bulk: per design "pending", the response of
                      \* its call_deepseek task, or "Exception"
    bulk_ret,         \* what gen_question_bulk returned or raised
    vf_pc,            \* verify_question: "idle", "gathering", "returned"
    vf_results,       \* verify_question: per candidate "running" or the result of
                      \* its check_equivalence call
    vf_ret,           \* verify_question: the candidates counted as matching
    disk_designs,     \* the designs .jsonl file on disk: missing, or its lines
    disk_questions,   \* the questions .jsonl file on disk: missing, or its lines
    got,              \* what get_questions_by_equiv_id returned last
    mut_pc,           \* mutate: "idle", "loop", "gather", "ast_loop", "done"
    mut_n,            \* mutate: n, the number of mutants asked for
    llm_based,        \* mutate: the llm_based argument
    mutants,          \* mutate / llm_mutate_design: the hashes of `mutants`
    mut_i,            \* mutate: i, the index of the AST loop
    attempts,         \* generate_all_mutants: attempts
    mut_tasks,        \* generate_all_mutants: the gathered tasks' results
    pd_pc,            \* process_designs: "idle", "loop", "write", "done"
    v_files,          \* process_designs: the contents of the sorted .v files
    pd_oracle,        \* what the oracle answers for a standardized content
    pd_next,          \* process_designs: index of the next file of the loop
    entries,          \* process_designs: the entries collected so far
    designs_jsonl     \* process_designs: the output file data/designs.jsonl

dbvars == <<designs, questions, question_search>>
planvars == <<plan_pc, plan_start, plan_batch, plan_merged>>
oraclevars == <<yosys_pc, modules_left, invocations, yosys_stdout_list, check_ret>>
validvars == <<vq_pc, generated_answers, results, semaphore, valid_question,
               validate_ret>>
batchvars == <<bulk_pc, bulk_tasks, bulk_ret, vf_pc, vf_results, vf_ret>>
diskvars == <<disk_designs, disk_questions, got>>
retryvars == <<mut_pc, mut_n, llm_based, mutants, mut_i, attempts, mut_tasks>>
procvars == <<pd_pc, v_files, pd_oracle, pd_next, entries, designs_jsonl>>
pipevars == <<oraclevars, validvars, batchvars, diskvars, retryvars, procvars>>
vars == <<designs, questions, question_search, call, ret, ever_merged,
          plan_pc, plan_start, plan_batch, plan_merged, pipevars>>

----------------------------------------------------------------------------
(* Bounds *)

\* total number of DesignEntry objects the model lets add_design store
MaxDesigns == 3

\* the largest number of .v files process_designs finds
MaxFiles == 2

\* the largest number of mutants llm_mutate_design is asked for
MaxN == 3

\* the largest number of lines the model lets write_db grow a file to
MaxFileLines == 3

\* number of DesignEntry objects stored while the files are exercised
MaxStored == 2

\* the largest number of modules in a ground truth
MaxModules == 3

\* the largest number of designs handed to gen_question_bulk and of candidates
\* checked by verify_question
MaxBatch == 3

\* the number n of answers a ValidQuestionGenerator asks for
MaxAnswers == 3

\* main.py line 126: the permits of each question_vqg's semaphore
max_concurrent_yosys == 2

\* the ValidQuestionGenerator objects alive at the same time (main.py creates
\* one per question and gathers their validate() calls)
Instances == {1, 2}

----------------------------------------------------------------------------
(* Strings, hashing, canonicalization *)

\* contents handed to add_design, before standardize()
RawContents == {"a", "a2", "b", "bad"}
\* standardized contents
Contents == {"A", "B", "C"}
QuestionContents == {"q1", "q2"}

\* utils/mutate.py standardize: rename modules, parse, regenerate.  Many raw
\* texts map to one canonical text; a text that does not parse raises.
StandardizeFails(raw) == raw \notin {"a", "a2", "b", "c", "A", "B", "C"}

standardize(raw) ==
    CASE raw \in {"a", "a2", "A"} -> "A"
      [] raw \in {"b", "B"} -> "B"
      [] raw \in {"c", "C"} -> "C"
      [] OTHER -> "bad"

\* utils/hash_utils.py hash_string: sha256(...).hexdigest(), modelled as an
\* injective table into two-digit hex strings (not order preserving).
hash_string(s) ==
    CASE s = "A" -> "7c"
      [] s = "B" -> "2e"
      [] s = "C" -> "b1"
      [] s = "q1" -> "d4"
      [] s = "q2" -> "90"
      [] s = "" -> "e3"
      [] OTHER -> "ff"

\* character codes of the strings used as class ids
CharCodes(s) ==
    CASE s = "" -> <<>>
      [] s = "7c" -> <<55, 99>>
      [] s = "2e" -> <<50, 101>>
      [] s = "b1" -> <<98, 49>>
      [] s = "g" -> <<103>>
      [] s = "d4" -> <<100, 52>>
      [] s = "90" -> <<57, 48>>
      [] s = "e3" -> <<101, 51>>
      [] OTHER -> <<102, 102>>

RECURSIVE SeqLess(_, _)
SeqLess(x, y) ==
    IF y = <<>> THEN FALSE
    ELSE IF x = <<>> THEN TRUE
    ELSE IF Head(x) # Head(y) THEN Head(x) < Head(y)
    ELSE SeqLess(Tail(x), Tail(y))

\* Python str.__lt__
StrLess(a, b) == SeqLess(CharCodes(a), CharCodes(b))

\* class ids passed as arguments by callers: the hashes of the designs "A", "B"
IdArgs == {hash_string("A"), hash_string("B")}

\* min() of a non-empty set of strings
StrMin(S) == CHOOSE m \in S : \A x \in S : x = m \/ StrLess(m, x)

----------------------------------------------------------------------------
(* Entries *)

\* DesignEntry.__init__
DesignEntry(content, equiv_id) ==
    [content |-> content,
     hash |-> hash_string(content),
     equiv_id |-> IF equiv_id = "" THEN hash_string(content) ELSE equiv_id]

\* QuestionEntry.__init__
QuestionEntry(content, equiv_ids) ==
    [content |-> content, equiv_ids |-> equiv_ids, hash |-> hash_string(content)]

\* the empty defaultdict(list)
EmptyMap == [k \in {} |-> <<>>]

\* defaultdict.__getitem__ read: the list under k, [] when k is absent
Get(m, k) == IF k \in DOMAIN m THEN m[k] ELSE <<>>

\* m with key k bound to v (k is created when absent)
Put(m, k, v) == [x \in (DOMAIN m) \cup {k} |-> IF x = k THEN v ELSE m[x]]

\* dict.pop(k, None)
Pop(m, k) == [x \in (DOMAIN m) \ {k} |-> m[x]]

Range(s) == {s[i] : i \in 1..Len(s)}

RECURSIVE SumLen(_, _)
SumLen(m, K) ==
    IF K = {} THEN 0
    ELSE LET k == CHOOSE x \in K : TRUE IN Len(m[k]) + SumLen(m, K \ {k})

\* number of DesignEntry objects stored
NumDesigns(m) == SumLen(m, DOMAIN m)

----------------------------------------------------------------------------
(* Database.add_design *)

\* mutant: the loop over the class's members finds nothing
HasHashNever(group, hash_id) == FALSE

\* lines 151-153
HasHash(group, hash_id) == \E i \in 1..Len(group) : group[i].hash = hash_id

\* lines 136-155: the designs map after add_design(content, equiv_id) and the
\* value it returns
AddDesign(d, content, equiv_id) ==
    IF StandardizeFails(content) THEN [designs |-> d, ret |-> "False"]
    ELSE LET c == standardize(content)
             hash_id == hash_string(c)
             eid == IF equiv_id = "" THEN hash_id ELSE equiv_id
             new_design == DesignEntry(c, eid)
         IN  IF eid \notin DOMAIN d
             THEN [designs |-> Put(d, eid, <<new_design>>), ret |-> "True"]
             ELSE IF HasHash(d[eid], hash_id)
             THEN [designs |-> d, ret |-> "False"]
             ELSE [designs |-> Put(d, eid, Append(d[eid], new_design)),
                   ret |-> "True"]

add_design(content, equiv_id) ==
    LET r == AddDesign(designs, content, equiv_id)
    IN  /\ NumDesigns(r.designs) <= MaxDesigns
        /\ call' = "add_design"
        /\ designs' = r.designs
        /\ ret' = r.ret
        /\ ever_merged' = [k \in DOMAIN r.designs |->
                IF k \in DOMAIN designs THEN ever_merged[k] ELSE {k}]
        /\ UNCHANGED <<questions, question_search>>

----------------------------------------------------------------------------
(* Database.merge_equiv_groups *)

\* mutant: the loser's designs are not appended to the winner's list
MergeDesignsNoExtend(d, winner, loser) == Pop(Put(d, winner, Get(d, winner)), loser)

\* lines 173-176 / 186-189: the designs of `loser` get equiv_id `winner`, are
\* appended to designs[winner], and the key `loser` is popped
MergeDesigns(d, winner, loser) ==
    LET d1 == Put(d, loser, [i \in 1..Len(Get(d, loser)) |->
                     [Get(d, loser)[i] EXCEPT !.equiv_id = winner]])
        d2 == Put(d1, winner, Get(d1, winner) \o Get(d1, loser))
    IN  Pop(d2, loser)

\* mutant: the loop rewrites every stored question
MergeQuestionsAll(qs, search, winner, loser) ==
    [i \in 1..Len(qs) |-> [qs[i] EXCEPT !.equiv_ids = (@ \ {loser}) \cup {winner}]]

\* lines 179-181 / 192-194: every question indexed under `loser` has `loser`
\* discarded from and `winner` added to its equiv_ids
MergeQuestions(qs, search, winner, loser) ==
    LET refs == Range(Get(search, loser))
    IN  [i \in 1..Len(qs) |->
            IF i \in refs
            THEN [qs[i] EXCEPT !.equiv_ids = (@ \ {loser}) \cup {winner}]
            ELSE qs[i]]

\* lines 179, 182-183 / 192, 195-196: question_search[loser] is appended to
\* question_search[winner] (both keys are created by the defaultdict when
\* absent) and the key `loser` is popped
MergeSearch(search, winner, loser) ==
    LET s1 == Put(search, loser, Get(search, loser))
        s2 == Put(s1, winner, Get(s1, winner) \o Get(s1, loser))
    IN  Pop(s2, loser)

\* mutant: the comparison is forgotten and group_one always survives
MergeWinnerFirst(group_one, group_two) == group_one

\* mutant: the comparison is inverted and the larger id survives
MergeWinnerMax(group_one, group_two) ==
    IF StrLess(group_one, group_two) THEN group_two ELSE group_one

\* line 171: the branch taken; the else branch also takes equal ids
MergeWinner(group_one, group_two) ==
    IF StrLess(group_one, group_two) THEN group_one ELSE group_two

\* the group of the other argument
MergeLoser(group_one, group_two) ==
    IF MergeWinner(group_one, group_two) = group_one THEN group_two ELSE group_one

\* mutant: only group_one is asserted to exist
MergeAssertsOne(d, group_one, group_two) == group_one \in DOMAIN d

\* lines 167-168: the two assert statements
MergeAsserts(d, group_one, group_two) ==
    group_one \in DOMAIN d /\ group_two \in DOMAIN d

\* history of the ids folded into each class
MergeHistory(h, nd, winner, loser) ==
    [k \in DOMAIN nd |->
        IF k = winner /\ winner # loser /\ winner \in DOMAIN h /\ loser \in DOMAIN h
        THEN h[winner] \cup h[loser]
        ELSE IF k \in DOMAIN h THEN h[k] ELSE {k}]

merge_equiv_groups(group_one, group_two) ==
    /\ call' = "merge_equiv_groups"
    /\ IF ~MergeAsserts(designs, group_one, group_two)
       THEN /\ ret' = "AssertionError"
            /\ UNCHANGED <<designs, questions, question_search, ever_merged>>
       ELSE LET winner == MergeWinner(group_one, group_two)
                loser == MergeLoser(group_one, group_two)
                nd == MergeDesigns(designs, winner, loser)
            IN  /\ designs' = nd
                /\ questions' = MergeQuestions(questions, question_search, winner, loser)
                /\ question_search' = MergeSearch(question_search, winner, loser)
                /\ ever_merged' = MergeHistory(ever_merged, nd, winner, loser)
                /\ ret' = "None"

----------------------------------------------------------------------------
(* Database.add_question *)

\* mutant: the call is rejected only when no requested id is known
UnknownIdAll(d, equiv_ids) ==
    equiv_ids # {} /\ \A equiv_id \in equiv_ids : equiv_id \notin DOMAIN d

\* lines 213-215: some requested id is not a key of designs
UnknownId(d, equiv_ids) == \E equiv_id \in equiv_ids : equiv_id \notin DOMAIN d

\* mutant: no stored question is recognised
QuestionKnownNever(qs, content) == FALSE

\* line 220
QuestionKnown(qs, content) ==
    \E i \in 1..Len(qs) : qs[i].hash = hash_string(content)

\* lines 228-229: the new question's reference is appended under each id
IndexQuestion(search, equiv_ids, ref) ==
    [k \in (DOMAIN search) \cup equiv_ids |->
        IF k \in equiv_ids THEN Append(Get(search, k), ref) ELSE search[k]]

add_question(content, equiv_ids) ==
    /\ call' = "add_question"
    /\ UNCHANGED <<designs, ever_merged>>
    /\ IF UnknownId(designs, equiv_ids)
       THEN /\ ret' = "ValueError"
            /\ UNCHANGED <<questions, question_search>>
       ELSE IF QuestionKnown(questions, content)
       THEN /\ ret' = "True"
            /\ UNCHANGED <<questions, question_search>>
       ELSE /\ questions' = Append(questions, QuestionEntry(content, equiv_ids))
            /\ question_search' =
                   IndexQuestion(question_search, equiv_ids, Len(questions) + 1)
            /\ ret' = "True"

----------------------------------------------------------------------------
(* Database.read_db *)

\* dict.get(key, default) on a parsed JSON object
JsonGet(entry, key, default) == IF key \in DOMAIN entry THEN entry[key] ELSE default

\* JSON values of a question record's equivalence_group
JStr(s) == [type |-> "str", val |-> <<s>>]
JList(l) == [type |-> "list", val |-> l]

\* lines 301-317, over the remaining lines of the design file
RECURSIVE ReadDesigns(_, _, _)
ReadDesigns(lines, d, seen_design_hashes) ==
    IF lines = <<>> THEN d
    ELSE LET entry == Head(lines)
             equiv_id == JsonGet(entry, "equivalence_group",
                                 JsonGet(entry, "equiv_id", ""))
             content == JsonGet(entry, "content", "")
             design_entry == DesignEntry(content, equiv_id)
             seen == seen_design_hashes \cup {design_entry.hash}
         IN  IF design_entry.hash \in seen_design_hashes
             THEN ReadDesigns(Tail(lines), d, seen_design_hashes)
             ELSE IF HasHash(Get(d, equiv_id), design_entry.hash)
             THEN ReadDesigns(Tail(lines), Put(d, equiv_id, Get(d, equiv_id)), seen)
             ELSE ReadDesigns(Tail(lines),
                              Put(d, equiv_id, Append(Get(d, equiv_id), design_entry)),
                              seen)

\* lines 327-335: a single string, a list, or anything else
EquivIdsOf(equiv_ids_data) ==
    IF equiv_ids_data.type = "str" THEN {equiv_ids_data.val[1]}
    ELSE IF equiv_ids_data.type = "list" THEN Range(equiv_ids_data.val)
    ELSE {}

\* lines 320-349, over the remaining lines of the question file; the result is
\* the pair (questions, question_search)
RECURSIVE ReadQuestions(_, _, _, _)
ReadQuestions(lines, qs, search, seen_question_hashes) ==
    IF lines = <<>> THEN [questions |-> qs, question_search |-> search]
    ELSE LET entry == Head(lines)
             equiv_ids_data == JsonGet(entry, "equivalence_group",
                                       JsonGet(entry, "equiv_ids", JList(<<>>)))
             equiv_ids == EquivIdsOf(equiv_ids_data)
             content == JsonGet(entry, "content", "")
             question_entry == QuestionEntry(content, equiv_ids)
         IN  IF question_entry.hash \in seen_question_hashes
             THEN ReadQuestions(Tail(lines), qs, search, seen_question_hashes)
             ELSE ReadQuestions(Tail(lines),
                                Append(qs, question_entry),
                                IndexQuestion(search, equiv_ids, Len(qs) + 1),
                                seen_question_hashes \cup {question_entry.hash})

\* a file on disk: it exists or not, and holds lines (parsed JSON objects)
File(lines) == [exists |-> TRUE, lines |-> lines]
MissingFile == [exists |-> FALSE, lines |-> <<>>]

\* mutant: a missing file leaves that part of the database as it was
read_db_keeping(design_file, question_file) ==
    LET nd == IF design_file.exists
              THEN ReadDesigns(design_file.lines, EmptyMap, {})
              ELSE designs
        nq == IF question_file.exists
              THEN ReadQuestions(question_file.lines, <<>>, EmptyMap, {})
              ELSE [questions |-> questions, question_search |-> question_search]
    IN  /\ call' = "read_db"
        /\ designs' = nd
        /\ questions' = nq.questions
        /\ question_search' = nq.question_search
        /\ ever_merged' = [k \in DOMAIN nd |-> {k}]
        /\ ret' = "None"

read_db(design_file, question_file) ==
    LET nd == IF design_file.exists
              THEN ReadDesigns(design_file.lines, EmptyMap, {})
              ELSE EmptyMap
        nq == IF question_file.exists
              THEN ReadQuestions(question_file.lines, <<>>, EmptyMap, {})
              ELSE [questions |-> <<>>, question_search |-> EmptyMap]
    IN  /\ call' = "read_db"
        /\ designs' = nd
        /\ questions' = nq.questions
        /\ question_search' = nq.question_search
        /\ ever_merged' = [k \in DOMAIN nd |-> {k}]
        /\ ret' = "None"

\* the design records the model's files are made of
DesignLines ==
    { [hash |-> "7c", equivalence_group |-> "7c", content |-> "A"],
      [hash |-> "7c", equivalence_group |-> "2e", content |-> "A"],
      [hash |-> "2e", equivalence_group |-> "2e", content |-> "B"],
      [hash |-> "2e", equiv_id |-> "2e", content |-> "B"],
      [hash |-> "2e", content |-> "B"] }

\* the question records the model's files are made of
QuestionLines ==
    { [hash |-> "d4", equivalence_group |-> JList(<<"7c">>), content |-> "q1"],
      [hash |-> "d4", equivalence_group |-> JList(<<"7c", "2e">>), content |-> "q1"],
      [hash |-> "90", equivalence_group |-> JStr("2e"), content |-> "q2"],
      [hash |-> "90", content |-> "q2"] }

\* the files of at most two lines over a set of records, and the missing file
FilesOver(L) ==
    {MissingFile, File(<<>>)} \cup {File(<<x>>) : x \in L}
        \cup {File(<<x, y>>) : x \in L, y \in L}

\* the missing file, the empty file and one one-line file
ShortFilesOver(L) ==
    {MissingFile, File(<<>>), File(<<CHOOSE x \in L : "equivalence_group" \in DOMAIN x>>)}

----------------------------------------------------------------------------

Init ==
    /\ designs = EmptyMap
    /\ questions = <<>>
    /\ question_search = EmptyMap
    /\ call = "__init__"
    /\ ret = "None"
    /\ ever_merged = EmptyMap
    /\ plan_pc = "idle"
    /\ plan_start = EmptyMap
    /\ plan_batch = EmptyMap
    /\ plan_merged = {}
    /\ yosys_pc = "idle"
    /\ modules_left = 0
    /\ invocations = <<>>
    /\ yosys_stdout_list = <<>>
    /\ check_ret = "None"
    /\ vq_pc = [i \in Instances |-> "idle"]
    /\ generated_answers = [i \in Instances |-> <<>>]
    /\ results = [i \in Instances |-> <<>>]
    /\ semaphore = [i \in Instances |-> max_concurrent_yosys]
    /\ valid_question = [i \in Instances |-> FALSE]
    /\ validate_ret = [i \in Instances |-> "None"]
    /\ bulk_pc = "idle"
    /\ bulk_tasks = <<>>
    /\ bulk_ret = <<"None">>
    /\ vf_pc = "idle"
    /\ vf_results = <<>>
    /\ vf_ret = {}
    /\ disk_designs = MissingFile
    /\ disk_questions = MissingFile
    /\ got = <<>>
    /\ mut_pc = "idle"
    /\ mut_n = 1
    /\ llm_based = TRUE
    /\ mutants = <<>>
    /\ mut_i = 0
    /\ attempts = 0
    /\ mut_tasks = <<>>
    /\ pd_pc = "idle"
    /\ v_files = <<>>
    /\ pd_oracle = [c \in {"A", "B"} |-> "True"]
    /\ pd_next = 1
    /\ entries = <<>>
    /\ designs_jsonl = MissingFile

\* the Database API, called in any order; read_db loads any of the files when
\* the Database is fresh and one of the short files later
Next ==
    \/ /\ \E content \in RawContents, equiv_id \in {""} \cup IdArgs :
             add_design(content, equiv_id)
       /\ UNCHANGED <<planvars, pipevars>>
    \/ /\ \E group_one \in IdArgs \cup {""}, group_two \in IdArgs \cup {""} :
             merge_equiv_groups(group_one, group_two)
       /\ UNCHANGED <<planvars, pipevars>>
    \/ /\ \E content \in QuestionContents, equiv_ids \in SUBSET IdArgs :
             add_question(content, equiv_ids)
       /\ UNCHANGED <<planvars, pipevars>>
    \/ /\ call = "__init__"
       /\ \E design_file \in FilesOver(DesignLines),
             question_file \in FilesOver(QuestionLines) :
             read_db(design_file, question_file)
       /\ UNCHANGED <<planvars, pipevars>>
    \/ /\ call # "__init__"
       /\ \E design_file \in ShortFilesOver(DesignLines),
             question_file \in ShortFilesOver(QuestionLines) :
             read_db(design_file, question_file)
       /\ UNCHANGED <<planvars, pipevars>>

Spec == Init /\ [][Next]_vars

----------------------------------------------------------------------------
(* MergePlanner: a batch of verdicts is folded into connected components,   *)
(* and every component is merged into its minimum id by pairwise            *)
(* merge_equiv_groups calls, issued in any order.                           *)

\* the contents and class ids of the merge runs: three designs, default classes
MergeContents == {"a", "b", "c"}
MergeIds == {hash_string(standardize(c)) : c \in MergeContents}

Verdicts == {"true", "false", "error", "unchecked"}

\* the unordered pairs of distinct ids of K
PairsOf(K) == {p \in SUBSET K : Cardinality(p) = 2}

\* the graph keeps only the verdict=true edges
TrueEdges(batch) == {p \in DOMAIN batch : batch[p] = "true"}

\* breadth-first traversal: the ids reachable from the frontier over edges
RECURSIVE Reach(_, _)
Reach(seen, edges) ==
    LET next == seen \cup {y \in UNION edges : \E x \in seen : {x, y} \in edges}
    IN  IF next = seen THEN seen ELSE Reach(next, edges)

\* the connected component of class id k
Component(k, edges) == Reach({k}, edges)

\* the components with at least two members
Components(K, edges) ==
    {c \in {Component(k, edges) : k \in K} : Cardinality(c) >= 2}

\* the running target of a component: its minimum id
Target(comp) == StrMin(comp)

\* the members of the components still to be folded into their target
PlanPending ==
    {x \in UNION Components(DOMAIN plan_start, TrueEdges(plan_batch)) :
        x # Target(Component(x, TrueEdges(plan_batch))) /\ x \notin plan_merged}

\* a pass begins: the verdicts of a batch over the existing classes arrive
plan_begin(batch) ==
    /\ plan_pc # "merging"
    /\ plan_pc' = "merging"
    /\ plan_start' = designs
    /\ plan_batch' = batch
    /\ plan_merged' = {}
    /\ UNCHANGED <<designs, questions, question_search, call, ret, ever_merged>>

\* one pairwise merge of a pending member against its component's target; a
\* failing merge is fatal to the pass
plan_merge(x) ==
    /\ plan_pc = "merging"
    /\ x \in PlanPending
    /\ merge_equiv_groups(Target(Component(x, TrueEdges(plan_batch))), x)
    /\ plan_merged' = plan_merged \cup {x}
    /\ plan_pc' = IF ret' = "AssertionError" THEN "failed" ELSE "merging"
    /\ UNCHANGED <<plan_start, plan_batch>>

\* every component is folded: the pass is over
plan_end ==
    /\ plan_pc = "merging"
    /\ PlanPending = {}
    /\ plan_pc' = "done"
    /\ UNCHANGED <<designs, questions, question_search, call, ret, ever_merged,
                   plan_start, plan_batch, plan_merged>>

\* the planner forgets the last pass when the Database is used directly
PlanReset ==
    /\ plan_pc # "merging"
    /\ plan_pc' = "idle"
    /\ plan_start' = EmptyMap
    /\ plan_batch' = EmptyMap
    /\ plan_merged' = {}

MergeNext ==
    \/ /\ \E content \in MergeContents : add_design(content, "")
       /\ PlanReset
       /\ UNCHANGED pipevars
    \/ /\ \E group_one \in MergeIds, group_two \in MergeIds :
             merge_equiv_groups(group_one, group_two)
       /\ PlanReset
       /\ UNCHANGED pipevars
    \/ /\ \E equiv_ids \in SUBSET MergeIds : add_question("q1", equiv_ids)
       /\ PlanReset
       /\ UNCHANGED pipevars
    \/ /\ \E batch \in [PairsOf(DOMAIN designs) -> Verdicts] : plan_begin(batch)
       /\ UNCHANGED pipevars
    \/ /\ \E x \in MergeIds : plan_merge(x)
       /\ UNCHANGED pipevars
    \/ /\ plan_end
       /\ UNCHANGED pipevars

SpecMerge == Init /\ [][MergeNext]_vars

----------------------------------------------------------------------------
(* utils/equivalence_check.py: create_yosys_files and check_equivalence *)

\* what can happen to one yosys invocation: it exits with code 0 (the proof
\* succeeded), exits with code 1 (the proof failed or the input was rejected),
\* is killed by a signal (bash reports 139), runs into the 60 s timeout, or
\* cannot be started (create_subprocess_exec raises)
Outcomes == {"exit0", "exit1", "crash", "timeout", "spawn_error"}

\* mutant: a timed-out invocation is recorded as a failure
ReturnCodeFailClosed(outcome) ==
    CASE outcome = "exit0" -> 0
      [] outcome = "exit1" -> 1
      [] outcome = "crash" -> 139
      [] outcome = "timeout" -> 1
      [] outcome = "spawn_error" -> -1

\* lines 81-91: the code appended to yosys_stdout_list for one invocation
ReturnCode(outcome) ==
    CASE outcome = "exit0" -> 0
      [] outcome = "exit1" -> 1
      [] outcome = "crash" -> 139
      [] outcome = "timeout" -> 0
      [] outcome = "spawn_error" -> -1

\* line 117: all(code == 0 for code in yosys_results)
AllZero(codes) == \A i \in 1..Len(codes) : codes[i] = 0

\* check_equivalence is called on a ground truth with n modules; writing the
\* temporary files (lines 50-54) succeeds or raises OSError, which nothing
\* catches
check_begin(n, written) ==
    /\ yosys_pc # "running"
    /\ invocations' = <<>>
    /\ yosys_stdout_list' = <<>>
    /\ IF written
       THEN /\ yosys_pc' = "running"
            /\ modules_left' = n
            /\ check_ret' = "None"
       ELSE /\ yosys_pc' = "raised"
            /\ modules_left' = 0
            /\ check_ret' = "OSError"

\* lines 56-91: one iteration of the loop over mod_module_list
yosys_invoke(outcome) ==
    /\ yosys_pc = "running"
    /\ modules_left > 0
    /\ modules_left' = modules_left - 1
    /\ invocations' = Append(invocations, outcome)
    /\ yosys_stdout_list' = Append(yosys_stdout_list, ReturnCode(outcome))
    /\ UNCHANGED <<yosys_pc, check_ret>>

\* lines 93-104, 115-117: the loop is over, the list is returned and reduced
check_end ==
    /\ yosys_pc = "running"
    /\ modules_left = 0
    /\ yosys_pc' = "returned"
    /\ check_ret' = AllZero(yosys_stdout_list)
    /\ UNCHANGED <<modules_left, invocations, yosys_stdout_list>>

OracleNext ==
    \/ /\ \E n \in 0..MaxModules, written \in BOOLEAN : check_begin(n, written)
       /\ UNCHANGED <<dbvars, call, ret, ever_merged, planvars, diskvars, retryvars, procvars, validvars, batchvars>>
    \/ /\ \E outcome \in Outcomes : yosys_invoke(outcome)
       /\ UNCHANGED <<dbvars, call, ret, ever_merged, planvars, diskvars, retryvars, procvars, validvars, batchvars>>
    \/ /\ check_end
       /\ UNCHANGED <<dbvars, call, ret, ever_merged, planvars, diskvars, retryvars, procvars, validvars, batchvars>>

SpecOracle == Init /\ [][OracleNext]_vars

----------------------------------------------------------------------------
(* utils/generators.py: AnswerGenerator and ValidQuestionGenerator *)

\* what one call_deepseek task of generate_answers delivers: an exception, a
\* response with a Verilog block that parses, one with a block that does not,
\* or a blank response
LLMResults == {"Exception", "~~~verilog a~~~", "~~~verilog bad~~~", " "}

\* str.strip() is empty
IsBlank(text) == text \in {"", " "}

\* utils/LLM_call.py extract_between_markers with the markers of a fenced
\* verilog block (the fence is written ~~~ here): the
\* stripped text between the markers, the stripped text when there is no
\* begin marker
extract_between_markers(text) ==
    CASE text = "~~~verilog a~~~" -> "a"
      [] text = "~~~verilog bad~~~" -> "bad"
      [] text = " " -> ""
      [] OTHER -> text

\* generators.py lines 173-199: what one result adds to `answers`; a code
\* whose standardize raises is appended as it is
AnswersOf(result) ==
    IF result = "Exception" THEN <<>>
    ELSE LET code == extract_between_markers(result)
         IN  IF ~IsBlank(code)
             THEN IF StandardizeFails(code) THEN <<code>> ELSE <<standardize(code)>>
             ELSE <<result>>

\* AnswerGenerator.generate_answers over the gathered results
RECURSIVE GenerateAnswers(_)
GenerateAnswers(llm_results) ==
    IF llm_results = <<>> THEN <<>>
    ELSE AnswersOf(Head(llm_results)) \o GenerateAnswers(Tail(llm_results))

\* line 237: [a for a in answers if isinstance(a, str) and a.strip()]
NonBlank(a) == ~IsBlank(a)

\* the sequences of at most n elements of S
SeqsUpTo(S, n) == UNION {[1..k -> S] : k \in 0..n}

\* the value or exception of one check_equivalence call: OSError when the
\* temporary files cannot be written, else all(code == 0) over the codes of
\* its invocations
CheckEquivalence(written, outcomes) ==
    IF ~written THEN "OSError"
    ELSE IF AllZero([j \in 1..Len(outcomes) |-> ReturnCode(outcomes[j])])
    THEN "True" ELSE "False"

\* the results a check_equivalence call can deliver
CheckResults ==
    {CheckEquivalence(written, outcomes) :
        written \in BOOLEAN, outcomes \in SeqsUpTo(Outcomes, 2)}

Done(r) == r \notin {"queued", "running"}

\* the checks of instance i that are inside check_equivalence
Running(i) == {t \in 1..Len(results[i]) : results[i][t] = "running"}

\* the checks of instance i waiting for a permit
Queued(i) == {t \in 1..Len(results[i]) : results[i][t] = "queued"}

\* lines 226-261: validate() gathers the answers of n call_deepseek calls,
\* keeps the non-blank ones, returns False when none is left, and else
\* creates one check_with_semaphore task per answer
validate_begin(i, llm_results) ==
    LET answers == SelectSeq(GenerateAnswers(llm_results), NonBlank)
    IN  /\ vq_pc[i] # "checking"
        /\ generated_answers' = [generated_answers EXCEPT ![i] = answers]
        /\ IF answers = <<>>
           THEN /\ valid_question' = [valid_question EXCEPT ![i] = FALSE]
                /\ validate_ret' = [validate_ret EXCEPT ![i] = "False"]
                /\ vq_pc' = [vq_pc EXCEPT ![i] = "returned"]
                /\ results' = [results EXCEPT ![i] = <<>>]
           ELSE /\ vq_pc' = [vq_pc EXCEPT ![i] = "checking"]
                /\ results' = [results EXCEPT ![i] =
                                  [t \in 1..Len(answers) |-> "queued"]]
                /\ validate_ret' = [validate_ret EXCEPT ![i] = "None"]
                /\ UNCHANGED valid_question
        /\ UNCHANGED semaphore

\* lines 252-254: the longest waiting task of instance i enters
\* `async with self.semaphore` and calls check_equivalence
check_start(i) ==
    /\ vq_pc[i] = "checking"
    /\ Queued(i) # {}
    /\ semaphore[i] > 0
    /\ LET t == CHOOSE x \in Queued(i) : \A y \in Queued(i) : x <= y
       IN  results' = [results EXCEPT ![i][t] = "running"]
    /\ semaphore' = [semaphore EXCEPT ![i] = @ - 1]
    /\ UNCHANGED <<vq_pc, generated_answers, valid_question, validate_ret>>

\* mutant: a check that raises keeps its permit
check_finish_leaking(i, t, res) ==
    /\ vq_pc[i] = "checking"
    /\ t \in Running(i)
    /\ results' = [results EXCEPT ![i][t] = res]
    /\ semaphore' = [semaphore EXCEPT ![i] = IF res = "OSError" THEN @ ELSE @ + 1]
    /\ UNCHANGED <<vq_pc, generated_answers, valid_question, validate_ret>>

\* lines 253-254: check_equivalence returns or raises in task t and the
\* `async with` block releases the permit
check_finish(i, t, res) ==
    /\ vq_pc[i] = "checking"
    /\ t \in Running(i)
    /\ results' = [results EXCEPT ![i][t] = res]
    /\ semaphore' = [semaphore EXCEPT ![i] = @ + 1]
    /\ UNCHANGED <<vq_pc, generated_answers, valid_question, validate_ret>>

\* mutant: the gather waits for a value from every task
GatheredValues(i) == \A t \in 1..Len(results[i]) : results[i][t] \in {"True", "False"}

\* line 261: asyncio.gather(*tasks, return_exceptions=True) is over
Gathered(i) == \A t \in 1..Len(results[i]) : Done(results[i][t])

\* lines 263-279: the loop over the gathered results sets valid_question at
\* the first True and validate() returns the flag
validate_end(i) ==
    /\ vq_pc[i] = "checking"
    /\ Gathered(i)
    /\ valid_question' = [valid_question EXCEPT ![i] =
           IF \E t \in 1..Len(results[i]) : results[i][t] = "True" THEN TRUE ELSE @]
    /\ validate_ret' = [validate_ret EXCEPT ![i] =
           IF valid_question'[i] THEN "True" ELSE "False"]
    /\ vq_pc' = [vq_pc EXCEPT ![i] = "returned"]
    /\ UNCHANGED <<generated_answers, results, semaphore>>

\* one ValidQuestionGenerator, validated again and again (main.py line 368)
ValidateNext ==
    \/ /\ \E llm_results \in SeqsUpTo(LLMResults, MaxAnswers) :
             validate_begin(1, llm_results)
       /\ UNCHANGED <<dbvars, call, ret, ever_merged, planvars, diskvars, retryvars, procvars, oraclevars, batchvars>>
    \/ /\ check_start(1)
       /\ UNCHANGED <<dbvars, call, ret, ever_merged, planvars, diskvars, retryvars, procvars, oraclevars, batchvars>>
    \/ /\ \E t \in 1..MaxAnswers, res \in CheckResults : check_finish(1, t, res)
       /\ UNCHANGED <<dbvars, call, ret, ever_merged, planvars, diskvars, retryvars, procvars, oraclevars, batchvars>>
    \/ /\ validate_end(1)
       /\ UNCHANGED <<dbvars, call, ret, ever_merged, planvars, diskvars, retryvars, procvars, oraclevars, batchvars>>

SpecValidate == Init /\ [][ValidateNext]_vars

\* the event loop runs every task that can run, and every check_equivalence
\* call ends: each yosys invocation is cut off by its timeout
\* (equivalence_check.py lines 70-91)
SpecValidateFair ==
    /\ Init
    /\ [][ValidateNext]_vars
    /\ WF_validvars(check_start(1))
    /\ WF_validvars(\E t \in 1..MaxAnswers, res \in CheckResults : check_finish(1, t, res))
    /\ WF_validvars(validate_end(1))

\* main.py lines 110-144: one question_vqg per question, their validate()
\* calls gathered; every answer is a Verilog block that parses
PipelineNext ==
    \/ /\ \E i \in Instances,
             llm_results \in SeqsUpTo({"Exception", "~~~verilog a~~~"}, MaxAnswers) :
             vq_pc[i] = "idle" /\ validate_begin(i, llm_results)
       /\ UNCHANGED <<dbvars, call, ret, ever_merged, planvars, diskvars, retryvars, procvars, oraclevars, batchvars>>
    \/ /\ \E i \in Instances : check_start(i)
       /\ UNCHANGED <<dbvars, call, ret, ever_merged, planvars, diskvars, retryvars, procvars, oraclevars, batchvars>>
    \/ /\ \E i \in Instances, t \in 1..MaxAnswers, res \in CheckResults :
             check_finish(i, t, res)
       /\ UNCHANGED <<dbvars, call, ret, ever_merged, planvars, diskvars, retryvars, procvars, oraclevars, batchvars>>
    \/ /\ \E i \in Instances : validate_end(i)
       /\ UNCHANGED <<dbvars, call, ret, ever_merged, planvars, diskvars, retryvars, procvars, oraclevars, batchvars>>

SpecPipeline == Init /\ [][PipelineNext]_vars

----------------------------------------------------------------------------
(* Batches of gathered calls: gen_question.py gen_question_bulk and         *)
(* verification.py QuestionVerifier.verify_question                         *)

\* the responses of call_deepseek to a question prompt
BulkResponses == {"q1", "q2"}

\* gen_question.py lines 82-108: one call_deepseek task is created per design
bulk_begin(n) ==
    /\ bulk_pc \in {"idle", "returned"}
    /\ bulk_pc' = "gathering"
    /\ bulk_tasks' = [t \in 1..n |-> "pending"]
    /\ bulk_ret' = <<"None">>

\* utils/LLM_call.py lines 95-121: a call_deepseek task ends, with a response
\* or with an exception; the tasks of a gather that has raised keep running
bulk_task_done(t, outcome) ==
    /\ bulk_pc \in {"gathering", "raised"}
    /\ t \in 1..Len(bulk_tasks)
    /\ bulk_tasks[t] = "pending"
    /\ bulk_tasks' = [bulk_tasks EXCEPT ![t] = outcome]
    /\ UNCHANGED <<bulk_pc, bulk_ret>>

\* line 109: asyncio.gather(*tasks) without return_exceptions raises the first
\* exception of a task to the caller
BulkRaises(tasks) == \E t \in 1..Len(tasks) : tasks[t] = "Exception"

\* line 109: the exception of a task leaves gen_question_bulk
bulk_raise ==
    /\ bulk_pc = "gathering"
    /\ BulkRaises(bulk_tasks)
    /\ bulk_pc' = "raised"
    /\ bulk_ret' = <<"Exception">>
    /\ UNCHANGED bulk_tasks

\* lines 109-112: every task has a response; the responses are returned
bulk_return ==
    /\ bulk_pc = "gathering"
    /\ ~BulkRaises(bulk_tasks)
    /\ \A t \in 1..Len(bulk_tasks) : bulk_tasks[t] # "pending"
    /\ bulk_pc' = "returned"
    /\ bulk_ret' = bulk_tasks
    /\ UNCHANGED bulk_tasks

\* verification.py lines 158-180: no candidate returns at once; else one
\* check_equivalence call per candidate is created, with no semaphore
verify_begin(n) ==
    /\ vf_pc # "gathering"
    /\ vf_results' = [t \in 1..n |-> "running"]
    /\ vf_ret' = {}
    /\ vf_pc' = IF n = 0 THEN "returned" ELSE "gathering"

\* one check_equivalence call of verify_question returns or raises
verify_check_done(t, res) ==
    /\ vf_pc = "gathering"
    /\ t \in 1..Len(vf_results)
    /\ vf_results[t] = "running"
    /\ vf_results' = [vf_results EXCEPT ![t] = res]
    /\ UNCHANGED <<vf_pc, vf_ret>>

\* lines 183-207: gather(return_exceptions=True) is over; the candidates whose
\* result is true are the matching ones
verify_end ==
    /\ vf_pc = "gathering"
    /\ \A t \in 1..Len(vf_results) : vf_results[t] # "running"
    /\ vf_ret' = {t \in 1..Len(vf_results) : vf_results[t] = "True"}
    /\ vf_pc' = "returned"
    /\ UNCHANGED vf_results

BatchNext ==
    \/ /\ \E n \in 0..MaxBatch : bulk_begin(n)
       /\ UNCHANGED <<dbvars, call, ret, ever_merged, planvars, diskvars, retryvars, procvars, oraclevars,
                      validvars, vf_pc, vf_results, vf_ret>>
    \/ /\ \E t \in 1..MaxBatch, outcome \in BulkResponses \cup {"Exception"} :
             bulk_task_done(t, outcome)
       /\ UNCHANGED <<dbvars, call, ret, ever_merged, planvars, diskvars, retryvars, procvars, oraclevars,
                      validvars, vf_pc, vf_results, vf_ret>>
    \/ /\ bulk_raise
       /\ UNCHANGED <<dbvars, call, ret, ever_merged, planvars, diskvars, retryvars, procvars, oraclevars,
                      validvars, vf_pc, vf_results, vf_ret>>
    \/ /\ bulk_return
       /\ UNCHANGED <<dbvars, call, ret, ever_merged, planvars, diskvars, retryvars, procvars, oraclevars,
                      validvars, vf_pc, vf_results, vf_ret>>
    \/ /\ \E n \in 0..MaxBatch : verify_begin(n)
       /\ UNCHANGED <<dbvars, call, ret, ever_merged, planvars, diskvars, retryvars, procvars, oraclevars,
                      validvars, bulk_pc, bulk_tasks, bulk_ret>>
    \/ /\ \E t \in 1..MaxBatch, res \in CheckResults : verify_check_done(t, res)
       /\ UNCHANGED <<dbvars, call, ret, ever_merged, planvars, diskvars, retryvars, procvars, oraclevars,
                      validvars, bulk_pc, bulk_tasks, bulk_ret>>
    \/ /\ verify_end
       /\ UNCHANGED <<dbvars, call, ret, ever_merged, planvars, diskvars, retryvars, procvars, oraclevars,
                      validvars, bulk_pc, bulk_tasks, bulk_ret>>

SpecBatch == Init /\ [][BatchNext]_vars

----------------------------------------------------------------------------
(* Database.write_db and Database.get_questions_by_equiv_id *)

\* the enumerations of a finite set, each element once
Orders(S) == {o \in [1..Cardinality(S) -> S] : Range(o) = S}

\* DesignEntry.to_dict, dumped as a JSON line
DesignRecord(d) ==
    [hash |-> d.hash, equivalence_group |-> d.equiv_id, content |-> d.content]

\* QuestionEntry.to_dict, dumped as a JSON line; list(self.equiv_ids)
\* enumerates the set in the order `order`
QuestionRecord(q, order) ==
    [hash |-> q.hash, equivalence_group |-> JList(order), content |-> q.content]

\* lines 270-273: the lines written for the groups in the order `keys`
RECURSIVE DesignsDump(_, _)
DesignsDump(d, keys) ==
    IF keys = <<>> THEN <<>>
    ELSE [i \in 1..Len(d[Head(keys)]) |-> DesignRecord(d[Head(keys)][i])]
             \o DesignsDump(d, Tail(keys))

\* lines 270-273: designs.values() is walked in the dict's insertion order,
\* which the map does not record: any order of the keys
DesignDumps(d) == {DesignsDump(d, keys) : keys \in Orders(DOMAIN d)}

\* lines 277-279: one line per question; a set is listed in any order
QuestionDumps(qs) ==
    {[i \in 1..Len(qs) |-> QuestionRecord(qs[i], o[i])] :
        o \in {f \in [1..Len(qs) -> UNION {Orders(qs[i].equiv_ids) : i \in 1..Len(qs)}] :
                  \A i \in 1..Len(qs) : f[i] \in Orders(qs[i].equiv_ids)}}

\* lines 265-266, 269, 276: open(file, 'w') truncates, open(file, 'a') keeps
\* the lines of an existing file; both create a missing file
Opened(file, replace) == IF replace \/ ~file.exists THEN <<>> ELSE file.lines

\* the file after write_db wrote `dump` to it
Written(file, replace, dump) == File(Opened(file, replace) \o dump)

write_db(replace) ==
    \E ddump \in DesignDumps(designs), qdump \in QuestionDumps(questions) :
        /\ Len(Written(disk_designs, replace, ddump).lines) <= MaxFileLines
        /\ Len(Written(disk_questions, replace, qdump).lines) <= MaxFileLines
        /\ disk_designs' = Written(disk_designs, replace, ddump)
        /\ disk_questions' = Written(disk_questions, replace, qdump)
        /\ call' = "write_db"
        /\ ret' = "None"
        /\ UNCHANGED <<designs, questions, question_search, ever_merged, got>>

\* a file is deleted from the disk, outside the program
remove_file(which) ==
    /\ IF which = "designs"
       THEN disk_designs.exists /\ disk_designs' = MissingFile
                /\ UNCHANGED disk_questions
       ELSE disk_questions.exists /\ disk_questions' = MissingFile
                /\ UNCHANGED disk_designs
    /\ call' = "unlink"
    /\ ret' = "None"
    /\ UNCHANGED <<designs, questions, question_search, ever_merged, got>>

\* mutant: the lookup self.question_search[equiv_id] of a defaultdict
SearchAfterGetItem(search, equiv_id) == Put(search, equiv_id, Get(search, equiv_id))

\* line 243: dict.get(equiv_id, []) leaves the defaultdict as it is
SearchAfterGet(search, equiv_id) == search

get_questions_by_equiv_id(equiv_id) ==
    /\ got' = Get(question_search, equiv_id)
    /\ question_search' = SearchAfterGet(question_search, equiv_id)
    /\ call' = "get_questions_by_equiv_id"
    /\ ret' = "list"
    /\ UNCHANGED <<designs, questions, ever_merged, disk_designs, disk_questions>>

\* the Database with its two files: designs are added, merged and asked
\* about, and the database is written to and read from the disk
PersistNext ==
    \/ /\ \E content \in {"a", "b"}, equiv_id \in {"", "2e"} :
             /\ NumDesigns(AddDesign(designs, content, equiv_id).designs) <= MaxStored
             /\ add_design(content, equiv_id)
       /\ UNCHANGED <<planvars, retryvars, procvars, oraclevars, validvars, batchvars, diskvars>>
    \/ /\ \E group_one \in IdArgs, group_two \in IdArgs :
             merge_equiv_groups(group_one, group_two)
       /\ UNCHANGED <<planvars, retryvars, procvars, oraclevars, validvars, batchvars, diskvars>>
    \/ /\ \E equiv_ids \in {{}, {"2e"}} : add_question("q1", equiv_ids)
       /\ UNCHANGED <<planvars, retryvars, procvars, oraclevars, validvars, batchvars, diskvars>>
    \/ /\ \E replace \in BOOLEAN : write_db(replace)
       /\ UNCHANGED <<planvars, retryvars, procvars, oraclevars, validvars, batchvars>>
    \/ /\ read_db(disk_designs, disk_questions)
       /\ UNCHANGED <<planvars, retryvars, procvars, oraclevars, validvars, batchvars, diskvars>>
    \/ /\ \E which \in {"designs", "questions"} : remove_file(which)
       /\ UNCHANGED <<planvars, retryvars, procvars, oraclevars, validvars, batchvars>>
    \/ /\ \E equiv_id \in IdArgs : get_questions_by_equiv_id(equiv_id)
       /\ UNCHANGED <<planvars, retryvars, procvars, oraclevars, validvars, batchvars>>

SpecPersist == Init /\ [][PersistNext]_vars

----------------------------------------------------------------------------
(* utils/mutate.py: mutate and llm_mutate_design *)

\* the hashes of the codes a generation can produce, other than the design's
MutantHashes == {"m1", "m2"}

\* what one generation produces: no usable code, the original design again,
\* or a code with one of the hashes
Generated == {"fail", "orig"} \cup MutantHashes

\* what generate_mutant returns: None, or a dict, given here by its hash
MutantResults == {"None"} \cup MutantHashes

\* lines 507-571: generate_mutant returns None on an exception (lines
\* 565-571), for the original's hash (lines 537-539) and for the hash of a
\* mutant already in `mutants` (lines 542-545), and the dict otherwise
generate_mutant(generated, current) ==
    IF generated \in {"fail", "orig"} \/ generated \in Range(current)
    THEN "None" ELSE generated

\* line 575
max_attempts(n) == n * 3

\* line 579: the condition of the while loop
Retrying == Len(mutants) < mut_n /\ attempts < max_attempts(mut_n)

\* lines 620-621, 505, 575-577: mutate(design, n, p, llm_based=True) calls
\* llm_mutate_design(design, n), which reaches the loop
mutate_begin(n) ==
    /\ mut_pc \in {"idle", "done"}
    /\ mut_pc' = "loop"
    /\ mut_n' = n
    /\ llm_based' = TRUE
    /\ mutants' = <<>>
    /\ attempts' = 0
    /\ mut_tasks' = <<>>
    /\ UNCHANGED mut_i

\* lines 580-588: one task per mutant still needed, all counted as attempts,
\* then the gather begins
round_start ==
    /\ mut_pc = "loop"
    /\ Retrying
    /\ LET remaining == mut_n - Len(mutants)
       IN  /\ mut_tasks' = [t \in 1..remaining |-> "pending"]
           /\ attempts' = attempts + remaining
    /\ mut_pc' = "gather"
    /\ UNCHANGED <<mut_n, llm_based, mutants, mut_i>>

\* one generate_mutant task ends; `mutants` is as the last round left it,
\* since the results are appended only when the gather is over
task_done(t, generated) ==
    /\ mut_pc = "gather"
    /\ t \in 1..Len(mut_tasks)
    /\ mut_tasks[t] = "pending"
    /\ mut_tasks' = [mut_tasks EXCEPT ![t] = generate_mutant(generated, mutants)]
    /\ UNCHANGED <<mut_pc, mut_n, llm_based, mutants, mut_i, attempts>>

\* lines 591-597: the loop over the results appends every dict and breaks
\* when there are n mutants
RECURSIVE AppendResults(_, _, _)
AppendResults(current, results_left, n) ==
    IF results_left = <<>> THEN current
    ELSE IF Head(results_left) = "None"
    THEN AppendResults(current, Tail(results_left), n)
    ELSE IF Len(current) + 1 >= n THEN Append(current, Head(results_left))
    ELSE AppendResults(Append(current, Head(results_left)), Tail(results_left), n)

\* lines 588-597: the gather is over and its results are processed
round_end ==
    /\ mut_pc = "gather"
    /\ \A t \in 1..Len(mut_tasks) : mut_tasks[t] # "pending"
    /\ mutants' = AppendResults(mutants, mut_tasks, mut_n)
    /\ mut_tasks' = <<>>
    /\ mut_pc' = "loop"
    /\ UNCHANGED <<mut_n, llm_based, mut_i, attempts>>

\* lines 599-604: the loop is left and mutants is returned
mutate_return ==
    /\ mut_pc = "loop"
    /\ ~Retrying
    /\ mut_pc' = "done"
    /\ UNCHANGED <<mut_n, llm_based, mutants, mut_i, attempts, mut_tasks>>

\* mutant: the AST loop runs once more than asked
AstIterationsMore(n) == n + 1

\* line 639: for i in range(n)
AstIterations(n) == n

\* lines 623-637: mutate(design, n, p) without llm_based parses the design
\* and starts with no mutant
ast_begin(n) ==
    /\ mut_pc \in {"idle", "done"}
    /\ mut_pc' = "ast_loop"
    /\ mut_n' = n
    /\ llm_based' = FALSE
    /\ mutants' = <<>>
    /\ mut_i' = 0
    /\ attempts' = 0
    /\ mut_tasks' = <<>>

\* lines 639-666: one iteration: p random mutations, then the code is
\* appended unless ast_to_verilog raises or the hash is already a mutant's;
\* the hash of the original design is not looked for
ast_iteration(generated) ==
    /\ mut_pc = "ast_loop"
    /\ mut_i < AstIterations(mut_n)
    /\ mutants' = IF generated = "fail" \/ generated \in Range(mutants)
                  THEN mutants ELSE Append(mutants, generated)
    /\ mut_i' = mut_i + 1
    /\ UNCHANGED <<mut_pc, mut_n, llm_based, attempts, mut_tasks>>

\* line 668
ast_return ==
    /\ mut_pc = "ast_loop"
    /\ mut_i >= AstIterations(mut_n)
    /\ mut_pc' = "done"
    /\ UNCHANGED <<mut_n, llm_based, mutants, mut_i, attempts, mut_tasks>>

RetryNext ==
    \/ /\ \E n \in 1..MaxN : mutate_begin(n)
       /\ UNCHANGED <<dbvars, call, ret, ever_merged, planvars, oraclevars,
                      validvars, batchvars, diskvars, procvars>>
    \/ /\ round_start
       /\ UNCHANGED <<dbvars, call, ret, ever_merged, planvars, oraclevars,
                      validvars, batchvars, diskvars, procvars>>
    \/ /\ \E t \in 1..MaxN, generated \in Generated : task_done(t, generated)
       /\ UNCHANGED <<dbvars, call, ret, ever_merged, planvars, oraclevars,
                      validvars, batchvars, diskvars, procvars>>
    \/ /\ round_end
       /\ UNCHANGED <<dbvars, call, ret, ever_merged, planvars, oraclevars,
                      validvars, batchvars, diskvars, procvars>>
    \/ /\ mutate_return
       /\ UNCHANGED <<dbvars, call, ret, ever_merged, planvars, oraclevars,
                      validvars, batchvars, diskvars, procvars>>
    \/ /\ \E n \in 1..MaxN : ast_begin(n)
       /\ UNCHANGED <<dbvars, call, ret, ever_merged, planvars, oraclevars,
                      validvars, batchvars, diskvars, procvars>>
    \/ /\ \E generated \in Generated : ast_iteration(generated)
       /\ UNCHANGED <<dbvars, call, ret, ever_merged, planvars, oraclevars,
                      validvars, batchvars, diskvars, procvars>>
    \/ /\ ast_return
       /\ UNCHANGED <<dbvars, call, ret, ever_merged, planvars, oraclevars,
                      validvars, batchvars, diskvars, procvars>>

SpecRetry == Init /\ [][RetryNext]_vars

----------------------------------------------------------------------------
(* process_designs *)

\* what check_equivalence(path, code, code) answers when it is run
SanityAnswers == {"True", "False"}

\* line 53: yosys_sanity_check is an async function and is called without
\* await: the call runs no oracle and returns a coroutine object
yosys_sanity_check_call(content) == "coroutine"

\* bool(x) of line 54: a coroutine object is true, like any plain object
Truthy(x) == x \notin {"False", "None"}

\* lines 60-64
JsonlEntry(content) ==
    [hash |-> hash_string(content), equivalence_group |-> hash_string(content),
     content |-> content]

\* lines 28-43: the .v files are listed; with none of them the function
\* returns at line 38 and writes nothing
process_begin(files, oracle) ==
    /\ pd_pc \in {"idle", "done"}
    /\ v_files' = files
    /\ pd_oracle' = oracle
    /\ pd_next' = 1
    /\ entries' = <<>>
    /\ pd_pc' = IF files = <<>> THEN "done" ELSE "loop"
    /\ UNCHANGED designs_jsonl

\* lines 45-71: one file of the loop; an exception skips the file
process_file ==
    /\ pd_pc = "loop"
    /\ pd_next <= Len(v_files)
    /\ LET raw == v_files[pd_next]
       IN  IF StandardizeFails(raw) THEN UNCHANGED entries
           ELSE LET content == standardize(raw)
                    sane_flag == yosys_sanity_check_call(content)
                IN  IF ~Truthy(sane_flag) THEN UNCHANGED entries
                    ELSE entries' = Append(entries, JsonlEntry(content))
    /\ pd_next' = pd_next + 1
    /\ pd_pc' = IF pd_next = Len(v_files) THEN "write" ELSE "loop"
    /\ UNCHANGED <<v_files, pd_oracle, designs_jsonl>>

\* lines 74-80: the entries are written, replacing the file
process_write ==
    /\ pd_pc = "write"
    /\ designs_jsonl' = File(entries)
    /\ pd_pc' = "done"
    /\ UNCHANGED <<v_files, pd_oracle, pd_next, entries>>

ProcessNext ==
    \/ /\ \E k \in 0..MaxFiles :
             \E files \in [1..k -> {"a", "a2", "b", "bad"}],
                oracle \in [{"A", "B"} -> SanityAnswers] :
                 process_begin(files, oracle)
       /\ UNCHANGED <<dbvars, call, ret, ever_merged, planvars, oraclevars,
                      validvars, batchvars, diskvars, retryvars>>
    \/ /\ process_file
       /\ UNCHANGED <<dbvars, call, ret, ever_merged, planvars, oraclevars,
                      validvars, batchvars, diskvars, retryvars>>
    \/ /\ process_write
       /\ UNCHANGED <<dbvars, call, ret, ever_merged, planvars, oraclevars,
                      validvars, batchvars, diskvars, retryvars>>

SpecProcess == Init /\ [][ProcessNext]_vars

----------------------------------------------------------------------------
(* Properties *)

\* the class ids merge_equiv_groups is called with under Spec
MergeArgs == IdArgs \cup {""}

\* the class ids that occur anywhere in the question index or the questions
QuestionIds ==
    DOMAIN question_search \cup UNION {questions[i].equiv_ids : i \in 1..Len(questions)}

\* the number of entries of a member list with the given hash
RECURSIVE CountHash(_, _)
CountHash(group, h) ==
    IF group = <<>> THEN 0
    ELSE (IF Head(group).hash = h THEN 1 ELSE 0) + CountHash(Tail(group), h)

\* the number of entries of the whole map with the given hash
RECURSIVE CountHashIn(_, _, _)
CountHashIn(d, K, h) ==
    IF K = {} THEN 0
    ELSE LET k == CHOOSE x \in K : TRUE
         IN  CountHash(d[k], h) + CountHashIn(d, K \ {k}, h)

\* C1: for two distinct existing groups a and b, after merge_equiv_groups(a, b)
\* every design of the loser is in the winner's list, no stored question has
\* the loser id in its equiv_ids (each question that referenced the loser
\* references the winner), and the loser key is absent from designs and from
\* question_search.
C1_NoResidual ==
    [][\A a \in MergeArgs, b \in MergeArgs :
         (a # b /\ a \in DOMAIN designs /\ b \in DOMAIN designs
              /\ merge_equiv_groups(a, b))
         => LET winner == StrMin({a, b})
                loser == CHOOSE x \in {a, b} : x # winner
            IN  /\ winner \in DOMAIN designs'
                /\ \A i \in 1..Len(designs[loser]) :
                      \E j \in 1..Len(designs'[winner]) :
                          /\ designs'[winner][j].hash = designs[loser][i].hash
                          /\ designs'[winner][j].content = designs[loser][i].content
                /\ \A i \in 1..Len(questions') : loser \notin questions'[i].equiv_ids
                /\ \A i \in 1..Len(questions) :
                      loser \in questions[i].equiv_ids
                          => winner \in questions'[i].equiv_ids
                /\ loser \notin DOMAIN designs'
                /\ loser \notin DOMAIN question_search']_vars

\* C2: after every operation, for every class id c the set of questions
\* referenced by question_search[c] (an absent key counting as empty) is the
\* set of stored questions whose equiv_ids contains c.
C2_IndexExact ==
    \A c \in QuestionIds :
        Range(Get(question_search, c))
            = {i \in 1..Len(questions) : c \in questions[i].equiv_ids}

\* C3: within every class's member list the design hashes are pairwise
\* distinct.
C3_DistinctHashes ==
    \A k \in DOMAIN designs :
        \A i, j \in 1..Len(designs[k]) :
            i # j => designs[k][i].hash # designs[k][j].hash

\* C4: every DesignEntry stored in designs[k] has equiv_id equal to k.
C4_EquivIdIsKey ==
    \A k \in DOMAIN designs :
        \A i \in 1..Len(designs[k]) : designs[k][i].equiv_id = k

\* C5: starting from singleton classes, the id of every existing class is the
\* lexicographically smallest of the class ids ever merged into it, and is the
\* hash of its first member when nothing was merged into it.
C5_IdIsMinMerged ==
    \A k \in DOMAIN designs :
        /\ k \in ever_merged[k]
        /\ \A m \in ever_merged[k] : m = k \/ StrLess(k, m)
        /\ ever_merged[k] = {k} => designs[k][1].hash = k

\* C5 witness: a class into which the two other classes were merged
C5_Witness ==
    \E k \in DOMAIN designs :
        /\ Cardinality(ever_merged[k]) = 3
        /\ Len(designs[k]) = 3
        /\ call = "merge_equiv_groups"

\* C6: for every content c that standardizes and every reachable state,
\* calling add_design(c) with the default class twice leaves exactly one
\* stored entry with c's hash in the whole database, and the second call
\* returns False.
C6_AddTwiceOneEntry ==
    \A c \in MergeContents :
        LET first == AddDesign(designs, c, "")
            second == AddDesign(first.designs, c, "")
            h == hash_string(standardize(c))
        IN  /\ CountHashIn(second.designs, DOMAIN second.designs, h) = 1
            /\ second.ret = "False"

\* C7: add_question(content, ids) raises ValueError whenever some id of ids is
\* not a key of designs, and then designs, questions and question_search are
\* as they were before the call.
C7_UnknownIdRaises ==
    [][\A content \in QuestionContents, equiv_ids \in SUBSET IdArgs :
         ((\E id \in equiv_ids : id \notin DOMAIN designs)
              /\ add_question(content, equiv_ids))
         => (ret' = "ValueError" /\ UNCHANGED dbvars)]_vars

\* C7 witness: add_question has raised on a database that holds a class and a
\* question
C7_Witness ==
    /\ call = "add_question"
    /\ ret = "ValueError"
    /\ DOMAIN designs # {}
    /\ questions # <<>>

\* C8: merge_equiv_groups(a, b) fails with an error whenever a or b is not a
\* key of designs, and the failed call leaves designs, questions and
\* question_search unchanged.
C8_MissingGroupFails ==
    [][\A a \in MergeArgs, b \in MergeArgs :
         ((a \notin DOMAIN designs \/ b \notin DOMAIN designs)
              /\ merge_equiv_groups(a, b))
         => (ret' = "AssertionError" /\ UNCHANGED dbvars)]_vars

\* C8 witness: merge_equiv_groups has failed on a database that holds a class
\* with a question indexed under it
C8_Witness ==
    /\ call = "merge_equiv_groups"
    /\ ret = "AssertionError"
    /\ \E k \in DOMAIN designs : Get(question_search, k) # <<>>

\* the pass began with the three singleton classes
ThreeSingletons ==
    /\ DOMAIN plan_start = MergeIds
    /\ \A k \in MergeIds : Len(plan_start[k]) = 1

\* verdicts (A,B) = true and (B,C) = true
ChainVerdicts ==
    \E A \in MergeIds, B \in MergeIds, C \in MergeIds :
        /\ Cardinality({A, B, C}) = 3
        /\ plan_batch[{A, B}] = "true"
        /\ plan_batch[{B, C}] = "true"

\* C9: from three singleton classes A, B, C with verdicts (A,B) = true and
\* (B,C) = true, whatever the verdict of (A,C), no merge of the pass fails and
\* the pass ends with the three designs in one class whose id is min(A,B,C).
C9_MergeTransitive ==
    (ThreeSingletons /\ plan_pc # "idle" /\ ChainVerdicts)
    => /\ plan_pc # "failed"
       /\ plan_pc = "done"
            => /\ DOMAIN designs = {StrMin(MergeIds)}
               /\ Len(designs[StrMin(MergeIds)]) = 3
               /\ {designs[StrMin(MergeIds)][i].hash : i \in 1..3} = MergeIds

\* C9 witness: such a pass has ended, with (A,C) not true
C9_Witness ==
    /\ plan_pc = "done"
    /\ ThreeSingletons
    /\ ChainVerdicts
    /\ \E p \in DOMAIN plan_batch : plan_batch[p] \in {"false", "unchecked"}

\* the classes of the start of the pass connected to k by verdict=true pairs
RECURSIVE ConnectedTo(_)
ConnectedTo(seen) ==
    LET next == seen \cup
            {y \in DOMAIN plan_start :
                \E x \in seen : {x, y} \in DOMAIN plan_batch
                                 /\ plan_batch[{x, y}] = "true"}
    IN  IF next = seen THEN seen ELSE ConnectedTo(next)

\* the number of entries with hash h that the classes K held at the start
RECURSIVE StartCount(_, _)
StartCount(K, h) ==
    IF K = {} THEN 0
    ELSE LET k == CHOOSE x \in K : TRUE
         IN  CountHash(plan_start[k], h) + StartCount(K \ {k}, h)

\* C10: when a pass is over, the classes are the connected components of the
\* verdict=true pairs: every class holds the designs of one whole component
\* of the classes of the start and of nothing else, and no class of the start
\* is left outside; false and error verdicts join nothing.  The merges of a
\* component are issued in every order.
C10_PartitionIsComponents ==
    plan_pc = "done"
    => /\ DOMAIN designs \subseteq DOMAIN plan_start
       /\ \A k \in DOMAIN designs :
             \A h \in MergeIds :
                 CountHash(designs[k], h) = StartCount(ConnectedTo({k}), h)
       /\ \A j \in DOMAIN plan_start :
             Cardinality(ConnectedTo({j}) \cap DOMAIN designs) = 1

\* C10 witness: a pass is over that merged one pair of classes and left the
\* third class, joined to them by a false or error verdict only, alone
C10_Witness ==
    /\ plan_pc = "done"
    /\ Cardinality(DOMAIN plan_start) = 3
    /\ Cardinality(DOMAIN designs) = 2
    /\ \E p \in DOMAIN plan_batch : plan_batch[p] = "error"
    /\ \E p \in DOMAIN plan_batch : plan_batch[p] = "false"

\* lines 167-196 on the designs map alone: the map after the call
\* merge_equiv_groups(group_one, group_two); a failed assert leaves it as it was
MergedDesigns(d, group_one, group_two) ==
    IF ~MergeAsserts(d, group_one, group_two) THEN d
    ELSE MergeDesigns(d, MergeWinner(group_one, group_two),
                      MergeLoser(group_one, group_two))

\* the class ids under which a design of hash h is stored
ClassOf(d, h) == {k \in DOMAIN d : HasHash(d[k], h)}

\* C11: for three existing classes A, B, C, merging (A,B) then (B,C) leaves
\* every design under the same class id as merging (B,C) then (A,B), for
\* every lexicographic ordering of A, B and C.
C11_MergeOrderCommutes ==
    \A A \in DOMAIN designs, B \in DOMAIN designs, C \in DOMAIN designs :
        Cardinality({A, B, C}) = 3
        => LET ab_bc == MergedDesigns(MergedDesigns(designs, A, B), B, C)
               bc_ab == MergedDesigns(MergedDesigns(designs, B, C), A, B)
           IN  \A h \in MergeIds : ClassOf(ab_bc, h) = ClassOf(bc_ab, h)

\* C12: after merge_equiv_groups(a, b) has succeeded on two distinct classes,
\* the same call, and the call with the arguments swapped, passes its asserts
\* and leaves the designs as they were after the first call.
C12_RepeatMergeIdempotent ==
    \A a \in DOMAIN designs, b \in DOMAIN designs :
        a # b
        => LET first == MergedDesigns(designs, a, b)
           IN  /\ MergeAsserts(first, a, b)
               /\ MergeAsserts(first, b, a)
               /\ MergedDesigns(first, a, b) = first
               /\ MergedDesigns(first, b, a) = first

\* C20: when standardize fails on the content, add_design leaves the designs
\* unchanged and returns a value different from the one it returns for a
\* content that is already stored.
C20_FailureDistinct ==
    \A raw \in RawContents, c \in RawContents :
        (/\ StandardizeFails(raw)
         /\ ~StandardizeFails(c)
         /\ HasHash(Get(designs, hash_string(standardize(c))),
                    hash_string(standardize(c))))
        => /\ AddDesign(designs, raw, "").designs = designs
           /\ AddDesign(designs, raw, "").ret # AddDesign(designs, c, "").ret

\* C14: check_equivalence returns True when every yosys invocation of the
\* call either exited with code 0 or ran into its timeout: a timed-out
\* invocation counts as equivalent.
C14_TimeoutCountsEquivalent ==
    (/\ yosys_pc = "returned"
     /\ \A i \in 1..Len(invocations) : invocations[i] \in {"exit0", "timeout"})
    => check_ret = TRUE

\* C14 witness: a call has returned True after one invocation succeeded and
\* another timed out
C14_Witness ==
    /\ yosys_pc = "returned"
    /\ check_ret = TRUE
    /\ \E i \in 1..Len(invocations) : invocations[i] = "timeout"
    /\ \E i \in 1..Len(invocations) : invocations[i] = "exit0"

\* C15: a check in which a yosys invocation runs into its timeout returns
\* False.
C15_TimeoutFailsClosed ==
    (/\ yosys_pc = "returned"
     /\ \E i \in 1..Len(invocations) : invocations[i] = "timeout")
    => check_ret = FALSE

\* C16: when a yosys invocation cannot be started, crashes or rejects its
\* input, check_equivalence does not return a boolean.
C16_FailureNotBoolean ==
    (/\ yosys_pc \in {"returned", "raised"}
     /\ \E i \in 1..Len(invocations) :
           invocations[i] \in {"spawn_error", "crash"})
    => check_ret \notin BOOLEAN

\* the number of check_equivalence calls in progress in the whole process
InProgress(I) == Cardinality({<<i, t>> \in I \X (1..MaxAnswers) : t \in Running(i)})

\* C13: at every instant the number of check_equivalence calls in progress,
\* over all ValidQuestionGenerator instances, is at most the configured
\* max_concurrent_yosys.
C13_GlobalOracleBound == InProgress(Instances) <= max_concurrent_yosys

\* C17: in every batch of gathered calls, a call that fails affects only its
\* own result: when the batch's caller is done, every sibling call has run to
\* completion and the result of every call that succeeded has been delivered
\* to the caller and used (gen_question_bulk returns its response,
\* verify_question and validate count its verdict).
C17_FailureIsolated ==
    /\ bulk_pc \in {"returned", "raised"}
       => \A t \in 1..Len(bulk_tasks) :
              bulk_tasks[t] \in BulkResponses
              => (t \in 1..Len(bulk_ret) /\ bulk_ret[t] = bulk_tasks[t])
    /\ (vf_pc = "returned" /\ vf_results # <<>>)
       => /\ \A t \in 1..Len(vf_results) : vf_results[t] # "running"
          /\ vf_ret = {t \in 1..Len(vf_results) : vf_results[t] = "True"}
    /\ \A i \in Instances :
          (vq_pc[i] = "returned" /\ results[i] # <<>>)
          => /\ Gathered(i)
             /\ (\E t \in 1..Len(results[i]) : results[i][t] = "True")
                   => validate_ret[i] = "True"

\* C18: within one batch of validate(), valid_question and the returned value
\* are set only when every check of the batch has completed, and the value
\* returned for a batch of checks is True exactly when the verdicts of the
\* batch contain True, whatever the order in which the checks completed.
C18_DecisionAfterBatch ==
    [][\A i \in Instances :
         /\ (valid_question'[i] # valid_question[i]
                \/ (validate_ret'[i] # validate_ret[i] /\ validate_ret'[i] # "None"))
            => \A t \in 1..Len(results'[i]) : Done(results'[i][t])
         /\ (vq_pc[i] = "checking" /\ vq_pc'[i] = "returned")
            => /\ validate_ret'[i] = "True"
                    <=> \E t \in 1..Len(results'[i]) : results'[i][t] = "True"
               /\ valid_question'[i] = (validate_ret'[i] = "True")]_vars

\* C19: a code whose standardize fails is dropped: it is not among the
\* generated answers of a ValidQuestionGenerator, the candidates that
\* validate() hands to check_equivalence and that the pipeline returns.
C19_RejectedNeverUsed ==
    \A i \in Instances :
        \A t \in 1..Len(generated_answers[i]) :
            ~StandardizeFails(generated_answers[i][t])


----------------------------------------------------------------------------
(* Properties of the files *)

\* the (hash, class id, content) triples of the stored designs
DesignTriples(d) ==
    {<<d[k][i].hash, k, d[k][i].content>> : <<k, i>> \in
        {x \in (DOMAIN d) \X (1..NumDesigns(d)) : x[2] <= Len(d[x[1]])}}

\* the (hash, set of class ids, content) triples of the stored questions
QuestionTriples(qs) ==
    {<<qs[i].hash, qs[i].equiv_ids, qs[i].content>> : i \in 1..Len(qs)}

\* C21: whatever the order of the lines, write_db with its default
\* arguments followed by read_db into a fresh Database gives back the same
\* design triples and the same question triples
C21_WriteReadRoundTrip ==
    \A ddump \in DesignDumps(designs), qdump \in QuestionDumps(questions) :
        LET df == Written(disk_designs, FALSE, ddump)
            qf == Written(disk_questions, FALSE, qdump)
            nd == ReadDesigns(df.lines, EmptyMap, {})
            nq == ReadQuestions(qf.lines, <<>>, EmptyMap, {})
        IN  /\ DesignTriples(nd) = DesignTriples(designs)
            /\ QuestionTriples(nq.questions) = QuestionTriples(questions)

\* how many lines of a file are the record r
CountLine(lines, r) == Cardinality({i \in 1..Len(lines) : lines[i] = r})

\* two files hold the same records, up to their order
SameRecords(x, y) ==
    \A r \in Range(x) \cup Range(y) : CountLine(x, r) = CountLine(y, r)

\* C22: a second write_db with the default arguments, straight after a
\* write_db and with no mutation in between, leaves both files holding the
\* same records up to their order
C22_SecondWriteSameSnapshot ==
    [][(call = "write_db" /\ write_db(FALSE))
          => /\ SameRecords(disk_designs.lines, disk_designs'.lines)
             /\ SameRecords(disk_questions.lines, disk_questions'.lines)]_vars

\* the group and the hash read_db gives the design record `entry`
RecordGroup(entry) ==
    JsonGet(entry, "equivalence_group", JsonGet(entry, "equiv_id", ""))
RecordDesign(entry) == DesignEntry(JsonGet(entry, "content", ""), RecordGroup(entry))
RecordQuestion(entry) ==
    QuestionEntry(JsonGet(entry, "content", ""),
                  EquivIdsOf(JsonGet(entry, "equivalence_group",
                                     JsonGet(entry, "equiv_ids", JList(<<>>)))))

\* no earlier design record of the same group has the same hash
KeptDesign(lines, i) ==
    ~\E j \in 1..(i - 1) :
        /\ RecordGroup(lines[j]) = RecordGroup(lines[i])
        /\ RecordDesign(lines[j]).hash = RecordDesign(lines[i]).hash

\* no earlier question record has the same hash
KeptQuestion(lines, i) ==
    ~\E j \in 1..(i - 1) : RecordQuestion(lines[j]).hash = RecordQuestion(lines[i]).hash

\* C23: read_db loads every design record but those an earlier record of the
\* same group repeats, and every question record but those an earlier record
\* repeats
C23_SkipsExactlyRepeats ==
    call = "read_db" =>
        /\ disk_designs.exists =>
              LET lines == disk_designs.lines
              IN  /\ NumDesigns(designs) =
                         Cardinality({i \in 1..Len(lines) : KeptDesign(lines, i)})
                  /\ \A i \in 1..Len(lines) :
                         KeptDesign(lines, i) =>
                             /\ RecordGroup(lines[i]) \in DOMAIN designs
                             /\ \E n \in 1..Len(designs[RecordGroup(lines[i])]) :
                                    designs[RecordGroup(lines[i])][n] = RecordDesign(lines[i])
        /\ disk_questions.exists =>
              LET lines == disk_questions.lines
              IN  /\ Len(questions) =
                         Cardinality({i \in 1..Len(lines) : KeptQuestion(lines, i)})
                  /\ \A i \in 1..Len(lines) :
                         KeptQuestion(lines, i) =>
                             \E n \in 1..Len(questions) :
                                 questions[n] = RecordQuestion(lines[i])

\* C24: read_db with a missing design file or a missing question file raises
\* nothing and leaves that part of the database empty, whatever it held
C24_MissingFileReadsEmpty ==
    [][(call' = "read_db" /\ read_db(disk_designs, disk_questions))
          => /\ ret' = "None"
             /\ ~disk_designs.exists => designs' = EmptyMap
             /\ ~disk_questions.exists
                   => questions' = <<>> /\ question_search' = EmptyMap]_vars

\* read_db has just run with the design file missing and the question file
\* present: the questions were loaded and no design is left
C24_Witness ==
    /\ call = "read_db"
    /\ ~disk_designs.exists
    /\ disk_questions.exists
    /\ questions # <<>>
    /\ designs = EmptyMap

\* C26: get_questions_by_equiv_id on a class id that is no key of
\* question_search returns the empty list, raises nothing, adds no key and
\* changes nothing of the database
C26_LookupAbsentKey ==
    [][\A equiv_id \in IdArgs :
          (/\ call' = "get_questions_by_equiv_id"
           /\ equiv_id \notin DOMAIN question_search
           /\ get_questions_by_equiv_id(equiv_id))
          => /\ got' = <<>>
             /\ ret' = "list"
             /\ UNCHANGED <<designs, questions, question_search>>]_vars

\* a lookup has just returned the empty list while a question is stored and
\* some class id is still no key of question_search
C26_Witness ==
    /\ call = "get_questions_by_equiv_id"
    /\ got = <<>>
    /\ questions # <<>>
    /\ \E equiv_id \in IdArgs : equiv_id \notin DOMAIN question_search

C27_AddDesignTrueIffNew ==
    [][\A content \in {"a", "b"}, equiv_id \in {"", "2e"} :
          (call' = "add_design" /\ add_design(content, equiv_id))
          => LET h == hash_string(standardize(content))
                 k == IF equiv_id = "" THEN h ELSE equiv_id
                 was == \E i \in 1..Len(Get(designs, k)) : Get(designs, k)[i].hash = h
                 n == IF ret' = "True" THEN 1 ELSE 0
             IN  /\ ret' = "True" <=> ~was
                 /\ Len(Get(designs', k)) = Len(Get(designs, k)) + n
                 /\ NumDesigns(designs') = NumDesigns(designs) + n]_vars

\* add_design has just returned False while a class of two members is stored
C27_Witness ==
    /\ call = "add_design"
    /\ ret = "False"
    /\ \E k \in DOMAIN designs : Len(designs[k]) = 2

\* the hashes of the stored designs and of the stored questions
DesignHashes(d) == {t[1] : t \in DesignTriples(d)}
QuestionHashes(qs) == {qs[i].hash : i \in 1..Len(qs)}

\* C28: over every add_design, add_question and merge_equiv_groups step on
\* existing groups, equal or distinct, no stored design hash and no stored
\* question is lost and no class is left with an empty member list
C28_NothingDisappears ==
    [][(\/ \E content \in {"a", "b"}, equiv_id \in {"", "2e"} :
              add_design(content, equiv_id)
        \/ \E equiv_ids \in SUBSET IdArgs : add_question("q1", equiv_ids)
        \/ \E group_one \in DOMAIN designs, group_two \in DOMAIN designs :
              merge_equiv_groups(group_one, group_two))
          => /\ DesignHashes(designs) \subseteq DesignHashes(designs')
             /\ QuestionHashes(questions) \subseteq QuestionHashes(questions')
             /\ Len(questions) <= Len(questions')
             /\ \A k \in DOMAIN designs' :
                    designs'[k] = <<>> => k \in DOMAIN designs /\ designs[k] = <<>>]_vars

C32_HashInOneClass ==
    \A h \in {hash_string(c) : c \in Contents} :
        CountHashIn(designs, DOMAIN designs, h) <= 1

\* C33: every class id of every stored question is a key of designs whose
\* member list holds a design
C33_QuestionIdsExist ==
    \A i \in 1..Len(questions) :
        \A equiv_id \in questions[i].equiv_ids :
            equiv_id \in DOMAIN designs /\ designs[equiv_id] # <<>>

\* the (hash, content) pairs of the stored designs
HashContents(d) == {<<t[1], t[3]>> : t \in DesignTriples(d)}

C38_TrueNeedsAProof ==
    (yosys_pc = "returned" /\ check_ret = TRUE)
        => /\ Len(invocations) >= 1
           /\ \A i \in 1..Len(invocations) : invocations[i] = "exit0"

\* C35: whenever a validate() call has returned, it returned True, and
\* valid_question is True, exactly when a check of that call reported the
\* generated answer equivalent, also for a later call on the same instance
C35_ReturnIsThisCallsVerdict ==
    \A i \in Instances :
        vq_pc[i] = "returned"
            => /\ validate_ret[i] = "True"
                    <=> \E t \in 1..Len(results[i]) : results[i][t] = "True"
               /\ valid_question[i] <=> validate_ret[i] = "True"

\* C39: within one ValidQuestionGenerator at most max_concurrent_yosys
\* check_equivalence calls are in progress, every check in progress holds
\* one permit, and all permits are back when validate() has returned, also
\* after checks that raised
C39_PermitsBoundedAndReturned ==
    /\ Cardinality(Running(1)) <= max_concurrent_yosys
    /\ semaphore[1] + Cardinality(Running(1)) = max_concurrent_yosys
    /\ vq_pc[1] = "returned" => semaphore[1] = max_concurrent_yosys

\* validate() has returned after more checks than there are permits, one of
\* which raised
C39_Witness ==
    /\ vq_pc[1] = "returned"
    /\ Len(results[1]) > max_concurrent_yosys
    /\ \E t \in 1..Len(results[1]) : results[1][t] = "OSError"
    /\ semaphore[1] = max_concurrent_yosys

\* C40: under fair scheduling every check queued behind the semaphore is
\* eventually started, and a validate() that began its checks eventually
\* returns, whatever the checks deliver
C40_QueuedStartAndReturn ==
    /\ \A t \in 1..MaxAnswers : (t \in Queued(1)) ~> (t \in Running(1))
    /\ (vq_pc[1] = "checking") ~> (vq_pc[1] = "returned")

\* validate() has returned after as many checks as the model allows, which
\* delivered an exception, a refusal and an equivalence
C40_Witness ==
    /\ vq_pc[1] = "returned"
    /\ Len(results[1]) = MaxAnswers
    /\ {"OSError", "False", "True"} \subseteq Range(results[1])

----------------------------------------------------------------------------
(* Properties of the retry loop *)

\* C30: whatever n and whichever calls fail, the retry loop of
\* llm_mutate_design issues at most 3 * n generation attempts
C30_AttemptsAtMostThreeN == attempts <= 3 * mut_n

\* C31: in the AST-based and in the LLM-based mode alike, mutate never
\* holds more than n mutants, and so returns at most n
C31_AtMostNMutants == Len(mutants) <= mut_n

\* the LLM-based mode has returned fewer mutants than asked, after using up
\* its attempts
C31_Witness ==
    /\ mut_pc = "done"
    /\ llm_based
    /\ attempts >= max_attempts(mut_n)
    /\ Len(mutants) >= 1
    /\ Len(mutants) < mut_n

\* C36: the mutants returned by llm_mutate_design have pairwise distinct
\* hashes, whatever the tasks of a batch produce and in whatever order
C36_LlmMutantsDistinct ==
    llm_based =>
        \A i, j \in 1..Len(mutants) : i # j => mutants[i] # mutants[j]

----------------------------------------------------------------------------
(* Properties of process_designs *)

\* C34: every entry of the designs file written by process_designs has a
\* content whose oracle self-equivalence check answers true
C34_WrittenOnlyIfSane ==
    \A i \in 1..Len(designs_jsonl.lines) :
        pd_pc = "done" => pd_oracle[designs_jsonl.lines[i].content] = "True"

====
